---- MODULE Spec2Model ----
(***************************************************************************)
(* Model of the scraps GameService: lazy settlement of a resource that     *)
(* accrues over time, a one-time technology gate, a single-slot crafting   *)
(* job, and the command executor with its event log, all behind one mutex. *)
(*                                                                         *)
(* The repository holds several iterations of internal/service/service.go. *)
(* The model follows the iteration with typed event payloads               *)
(* (src/unnamed/part_007, lines 1-308), the one whose command and event    *)
(* declarations (src/unnamed/part_001, part_002) the test-suite            *)
(* internal/service/service_test.go is written against.  The helper        *)
(* functions unlock/craft/claim/cancel are the same text in                *)
(* src/internal/service/service.go.  The ComponentCraftClaimed event is    *)
(* exercised by the test-suite but declared nowhere in the sources; it is  *)
(* modelled from the specification.                                        *)
(*                                                                         *)
(* Time is counted in ticks of 1/TicksPerSec second, so that sub-second    *)
(* remainders exist.  Unsigned 64-bit quantities are scaled to UintBits    *)
(* bits.  Every call of s.clock.Now() is a reading of its own: the one of  *)
(* settleLocked, the one of craftComponentLocked or                        *)
(* claimCraftedComponentLocked, and the one each event is stamped with.    *)
(***************************************************************************)
EXTENDS Integers, Sequences, FiniteSets, TLC

\* ---------------------------------------------------------------- bounds
NumProcs == 2
MaxCalls == 4
MaxCallsSkew == 2
MaxTime == 5
StartTime == 1
LateTime == MaxTime
TicksPerSec == 2
MaxRate == 2
MaxUnlockCost == 1
MaxCraftCost == 1
MaxDuration == 1
UintBits == 4
MaxSince == 2
MaxLimit == 2

Procs == 1..NumProcs
Times == 0..MaxTime
UintMod == 2 ^ UintBits

\* ------------------------------------------------------------ vocabulary
ErrNone == "nil"
ErrInsufficientScrap == "insufficient scrap"
ErrAlreadyUnlocked == "already unlocked"
ErrCraftingLocked == "crafting locked"
ErrCraftInProgress == "craft already in progress"
ErrNoActiveCraft == "no active craft"
ErrCraftNotComplete == "craft not complete"

EventTypeScrapSettled == "ScrapSettled"
EventTypeCraftingUnlocked == "CraftingUnlocked"
EventTypeComponentCraftStarted == "ComponentCraftStarted"
EventTypeComponentCraftClaimed == "ComponentCraftClaimed"

CmdSyncState == "SyncState"
CmdSettle == "Settle"
CmdUnlock == "UnlockComponentCrafting"
CmdCraft == "CraftComponent"
CmdStartCraft == "StartCraftComponent"
CmdClaim == "ClaimCraftedComponent"
CmdCancel == "CancelCraft"

Commands == {CmdSyncState, CmdSettle, CmdUnlock, CmdCraft, CmdStartCraft, CmdClaim, CmdCancel}
StartCommands == {CmdCraft, CmdStartCraft}

\* cmd.CommandID(): the correlation ids the callers attach, one per command
\* type (those of the wrapper methods, "sync" and "craft" for the two
\* commands that have no wrapper)
CommandID(cmd) ==
    CASE cmd = CmdSyncState -> "sync"
      [] cmd = CmdSettle -> "settle"
      [] cmd = CmdUnlock -> "legacy"
      [] cmd = CmdCraft -> "craft"
      [] cmd = CmdStartCraft -> "legacy_start_craft"
      [] cmd = CmdClaim -> "claim_crafted_component"
      [] cmd = CmdCancel -> "cancel_craft"

\* the Config values a service is constructed with
Configs == [BaseScrapProduction : 0..MaxRate,
            CraftComponentTechnologyCost : 1..MaxUnlockCost,
            CraftComponentCost : 1..MaxCraftCost,
            CraftDurationSecs : 0..MaxDuration]

\* Config values in the upper half of the unsigned range: NewGameService
\* takes any uint64 in any field
WideRate == UintMod \div 2 + 1
WideCost == UintMod \div 2
WideConfigs == [BaseScrapProduction : {WideRate},
                CraftComponentTechnologyCost : {1, WideCost},
                CraftComponentCost : {WideCost},
                CraftDurationSecs : 0..MaxDuration]

\* ActiveCraft == nil
NoJob == [present |-> FALSE]

VARIABLES
    cfg,            \* GameService.cfg
    now,            \* the latest reading the injected clock returned
    skew,           \* whether the clock may return a reading earlier than a previous one
    state,          \* GameService.state
    eventSequence,  \* GameService.eventSequence
    events,         \* GameService.events
    mu,             \* GameService.mu: 0 when free, else the caller holding it
    pc,             \* where each caller is: "idle", "wait" (blocked in Lock), "apply"
    call,           \* the frame of the Execute call each caller is in
    last,           \* what the Execute call that completed last returned, until the next operation
    view,           \* what the GetState or ListEvents call that completed last returned, until the next operation
    totalMinted,    \* history: the sum of everything settleLocked minted
    clockMonotone,  \* history: no reading so far was earlier than a previous one
    nCalls,         \* history: the number of Execute calls made
    tally           \* history: the successful starts, claims and cancels so far

vars == <<cfg, now, skew, state, eventSequence, events, mu, pc, call, last, view,
          totalMinted, clockMonotone, nCalls, tally>>

\* ------------------------------------------------------- pure functions
\* uint64 arithmetic, scaled to UintBits bits
Wrap(x) == x % UintMod

\* int64(x) of an unsigned value
ToInt64(x) == IF x >= UintMod \div 2 THEN x - UintMod ELSE x

\* int64(now.Sub(from).Seconds()): whole seconds, truncated toward zero
ElapsedSeconds(t, from) ==
    LET d == t - from
    IN  IF d >= 0 THEN d \div TicksPerSec ELSE 0 - ((0 - d) \div TicksPerSec)

NewState(startTime) ==
    [Scrap |-> 0, Components |-> 0, CraftingUnlocked |-> FALSE,
     LastSettledAt |-> startTime, ActiveCraft |-> NoJob]

snapshotLocked(st) == st

\* a snapshot that keeps the pointer to the service's own CraftJob
snapshotJobCell_Shallow(st) == IF st.ActiveCraft.present THEN "shared" ELSE "nil"

\* the CraftJob a snapshot points to: snapshotLocked copies the job into a
\* variable of its own (ac := *s.state.ActiveCraft; snap.ActiveCraft = &ac)
snapshotJobCell(st) == IF st.ActiveCraft.present THEN "copy" ELSE "nil"

\* the loop of ListEvents over s.events, from index i on
RECURSIVE ListEventsLoop(_, _, _, _, _)
ListEventsLoop(log, i, sinceID, limit, filtered) ==
    IF i > Len(log)
    THEN filtered
    ELSE IF log[i].ID <= sinceID
    THEN ListEventsLoop(log, i + 1, sinceID, limit, filtered)
    ELSE LET more == Append(filtered, log[i])
         IN  IF limit > 0 /\ Len(more) >= limit
             THEN more
             ELSE ListEventsLoop(log, i + 1, sinceID, limit, more)

\* ListEvents returning one event more than limit allows
ListEvents_OneTooMany(log, sinceID, limit) ==
    ListEventsLoop(log, 1, sinceID, IF limit > 0 THEN limit + 1 ELSE limit, <<>>)

ListEvents(log, sinceID, limit) == ListEventsLoop(log, 1, sinceID, limit, <<>>)

\* ListEvents returning a slice of the log's own array
ListEventsArray_NoCopy(log, sinceID, limit) == "shared"

\* the array behind the slice ListEvents returns: out := make(...); copy(out, filtered)
ListEventsArray(log, sinceID, limit) == "copy"

NewEvent(id, at, commandID, eventType, data) ==
    [ID |-> id, At |-> at, CommandID |-> commandID, Type |-> eventType, Data |-> data]

\* settleLocked moving the cursor to the clock reading instead of by whole seconds
settleLocked_CursorToNow(st, c, t) ==
    LET from == st.LastSettledAt
        elapsedSeconds == ElapsedSeconds(t, from)
        mint == Wrap(Wrap(elapsedSeconds) * c.BaseScrapProduction)
    IN  IF elapsedSeconds <= 0
        THEN [minted |-> 0, from |-> from, to |-> from, state |-> st]
        ELSE [minted |-> mint, from |-> from, to |-> t,
              state |-> [st EXCEPT !.Scrap = Wrap(st.Scrap + mint),
                                   !.LastSettledAt = t]]

\* settleLocked returning early only when elapsedSeconds is exactly zero
settleLocked_ZeroOnly(st, c, t) ==
    LET from == st.LastSettledAt
        elapsedSeconds == ElapsedSeconds(t, from)
        mint == Wrap(Wrap(elapsedSeconds) * c.BaseScrapProduction)
        to == from + elapsedSeconds * TicksPerSec
    IN  IF elapsedSeconds = 0
        THEN [minted |-> 0, from |-> from, to |-> from, state |-> st]
        ELSE [minted |-> mint, from |-> from, to |-> to,
              state |-> [st EXCEPT !.Scrap = Wrap(st.Scrap + mint),
                                   !.LastSettledAt = to]]

\* settleLocked without its early return
settleLocked_NoEarlyReturn(st, c, t) ==
    LET from == st.LastSettledAt
        elapsedSeconds == ElapsedSeconds(t, from)
        mint == Wrap(Wrap(elapsedSeconds) * c.BaseScrapProduction)
        to == from + elapsedSeconds * TicksPerSec
    IN  [minted |-> mint, from |-> from, to |-> to,
         state |-> [st EXCEPT !.Scrap = Wrap(st.Scrap + mint),
                              !.LastSettledAt = to]]

\* settleLocked crediting the balance and leaving the cursor where it was
settleLocked_CursorStays(st, c, t) ==
    LET from == st.LastSettledAt
        elapsedSeconds == ElapsedSeconds(t, from)
        mint == Wrap(Wrap(elapsedSeconds) * c.BaseScrapProduction)
    IN  IF elapsedSeconds <= 0
        THEN [minted |-> 0, from |-> from, to |-> from, state |-> st]
        ELSE [minted |-> mint, from |-> from, to |-> from,
              state |-> [st EXCEPT !.Scrap = Wrap(st.Scrap + mint)]]

\* settleLocked crediting one second's worth however many seconds elapsed
settleLocked_OneSecondOnly(st, c, t) ==
    LET from == st.LastSettledAt
        elapsedSeconds == ElapsedSeconds(t, from)
        mint == c.BaseScrapProduction
        to == from + elapsedSeconds * TicksPerSec
    IN  IF elapsedSeconds <= 0
        THEN [minted |-> 0, from |-> from, to |-> from, state |-> st]
        ELSE [minted |-> mint, from |-> from, to |-> to,
              state |-> [st EXCEPT !.Scrap = Wrap(st.Scrap + mint),
                                   !.LastSettledAt = to]]

settleLocked(st, c, t) ==
    LET from == st.LastSettledAt
        elapsedSeconds == ElapsedSeconds(t, from)
        mint == Wrap(Wrap(elapsedSeconds) * c.BaseScrapProduction)
        to == from + elapsedSeconds * TicksPerSec
    IN  IF elapsedSeconds <= 0
        THEN [minted |-> 0, from |-> from, to |-> from, state |-> st]
        ELSE [minted |-> mint, from |-> from, to |-> to,
              state |-> [st EXCEPT !.Scrap = Wrap(st.Scrap + mint),
                                   !.LastSettledAt = to]]

\* unlockComponentCraftingLocked setting the flag before it validates the balance
unlockComponentCraftingLocked_FlagFirst(st, c) ==
    IF st.CraftingUnlocked
    THEN [err |-> ErrAlreadyUnlocked, state |-> st]
    ELSE IF st.Scrap < c.CraftComponentTechnologyCost
    THEN [err |-> ErrInsufficientScrap, state |-> [st EXCEPT !.CraftingUnlocked = TRUE]]
    ELSE [err |-> ErrNone,
          state |-> [st EXCEPT !.Scrap = Wrap(st.Scrap - c.CraftComponentTechnologyCost),
                               !.CraftingUnlocked = TRUE]]

\* unlockComponentCraftingLocked checking the balance before the unlocked flag
unlockComponentCraftingLocked_BalanceFirst(st, c) ==
    IF st.Scrap < c.CraftComponentTechnologyCost
    THEN [err |-> ErrInsufficientScrap, state |-> st]
    ELSE IF st.CraftingUnlocked
    THEN [err |-> ErrAlreadyUnlocked, state |-> st]
    ELSE [err |-> ErrNone,
          state |-> [st EXCEPT !.Scrap = Wrap(st.Scrap - c.CraftComponentTechnologyCost),
                               !.CraftingUnlocked = TRUE]]

\* unlockComponentCraftingLocked refusing a balance equal to the cost
unlockComponentCraftingLocked_StrictlyMore(st, c) ==
    IF st.CraftingUnlocked
    THEN [err |-> ErrAlreadyUnlocked, state |-> st]
    ELSE IF st.Scrap <= c.CraftComponentTechnologyCost
    THEN [err |-> ErrInsufficientScrap, state |-> st]
    ELSE [err |-> ErrNone,
          state |-> [st EXCEPT !.Scrap = Wrap(st.Scrap - c.CraftComponentTechnologyCost),
                               !.CraftingUnlocked = TRUE]]

\* unlockComponentCraftingLocked setting the flag without taking the cost
unlockComponentCraftingLocked_NoCharge(st, c) ==
    IF st.CraftingUnlocked
    THEN [err |-> ErrAlreadyUnlocked, state |-> st]
    ELSE IF st.Scrap < c.CraftComponentTechnologyCost
    THEN [err |-> ErrInsufficientScrap, state |-> st]
    ELSE [err |-> ErrNone, state |-> [st EXCEPT !.CraftingUnlocked = TRUE]]

unlockComponentCraftingLocked(st, c) ==
    IF st.CraftingUnlocked
    THEN [err |-> ErrAlreadyUnlocked, state |-> st]
    ELSE IF st.Scrap < c.CraftComponentTechnologyCost
    THEN [err |-> ErrInsufficientScrap, state |-> st]
    ELSE [err |-> ErrNone,
          state |-> [st EXCEPT !.Scrap = Wrap(st.Scrap - c.CraftComponentTechnologyCost),
                               !.CraftingUnlocked = TRUE]]

\* craftComponentLocked without the check for a job in progress
craftComponentLocked_NoJobCheck(st, c, t) ==
    IF ~st.CraftingUnlocked
    THEN [err |-> ErrCraftingLocked, state |-> st]
    ELSE IF st.Scrap < c.CraftComponentCost
    THEN [err |-> ErrInsufficientScrap, state |-> st]
    ELSE [err |-> ErrNone,
          state |-> [st EXCEPT !.Scrap = Wrap(st.Scrap - c.CraftComponentCost),
                               !.ActiveCraft =
                                   [present |-> TRUE,
                                    StartedAt |-> t,
                                    FinishesAt |-> t + c.CraftDurationSecs * TicksPerSec,
                                    ScrapCost |-> c.CraftComponentCost]]]

\* craftComponentLocked checking the balance before the job in progress
craftComponentLocked_FundsFirst(st, c, t) ==
    IF ~st.CraftingUnlocked
    THEN [err |-> ErrCraftingLocked, state |-> st]
    ELSE IF st.Scrap < c.CraftComponentCost
    THEN [err |-> ErrInsufficientScrap, state |-> st]
    ELSE IF st.ActiveCraft.present
    THEN [err |-> ErrCraftInProgress, state |-> st]
    ELSE [err |-> ErrNone,
          state |-> [st EXCEPT !.Scrap = Wrap(st.Scrap - c.CraftComponentCost),
                               !.ActiveCraft =
                                   [present |-> TRUE,
                                    StartedAt |-> t,
                                    FinishesAt |-> t + c.CraftDurationSecs * TicksPerSec,
                                    ScrapCost |-> c.CraftComponentCost]]]

\* craftComponentLocked adding the duration without the factor time.Second
craftComponentLocked_DurationUnit(st, c, t) ==
    IF ~st.CraftingUnlocked
    THEN [err |-> ErrCraftingLocked, state |-> st]
    ELSE IF st.ActiveCraft.present
    THEN [err |-> ErrCraftInProgress, state |-> st]
    ELSE IF st.Scrap < c.CraftComponentCost
    THEN [err |-> ErrInsufficientScrap, state |-> st]
    ELSE [err |-> ErrNone,
          state |-> [st EXCEPT !.Scrap = Wrap(st.Scrap - c.CraftComponentCost),
                               !.ActiveCraft =
                                   [present |-> TRUE,
                                    StartedAt |-> t,
                                    FinishesAt |-> t + c.CraftDurationSecs,
                                    ScrapCost |-> c.CraftComponentCost]]]

\* craftComponentLocked taking the cost without checking that the balance covers it
craftComponentLocked_NoFundsCheck(st, c, t) ==
    IF ~st.CraftingUnlocked
    THEN [err |-> ErrCraftingLocked, state |-> st]
    ELSE IF st.ActiveCraft.present
    THEN [err |-> ErrCraftInProgress, state |-> st]
    ELSE [err |-> ErrNone,
          state |-> [st EXCEPT !.Scrap = Wrap(st.Scrap - c.CraftComponentCost),
                               !.ActiveCraft =
                                   [present |-> TRUE,
                                    StartedAt |-> t,
                                    FinishesAt |-> t + c.CraftDurationSecs * TicksPerSec,
                                    ScrapCost |-> c.CraftComponentCost]]]

\* craftComponentLocked without the check of the unlocked flag
craftComponentLocked_NoGateCheck(st, c, t) ==
    IF st.ActiveCraft.present
    THEN [err |-> ErrCraftInProgress, state |-> st]
    ELSE IF st.Scrap < c.CraftComponentCost
    THEN [err |-> ErrInsufficientScrap, state |-> st]
    ELSE [err |-> ErrNone,
          state |-> [st EXCEPT !.Scrap = Wrap(st.Scrap - c.CraftComponentCost),
                               !.ActiveCraft =
                                   [present |-> TRUE,
                                    StartedAt |-> t,
                                    FinishesAt |-> t + c.CraftDurationSecs * TicksPerSec,
                                    ScrapCost |-> c.CraftComponentCost]]]

craftComponentLocked(st, c, t) ==
    IF ~st.CraftingUnlocked
    THEN [err |-> ErrCraftingLocked, state |-> st]
    ELSE IF st.ActiveCraft.present
    THEN [err |-> ErrCraftInProgress, state |-> st]
    ELSE IF st.Scrap < c.CraftComponentCost
    THEN [err |-> ErrInsufficientScrap, state |-> st]
    ELSE [err |-> ErrNone,
          state |-> [st EXCEPT !.Scrap = Wrap(st.Scrap - c.CraftComponentCost),
                               !.ActiveCraft =
                                   [present |-> TRUE,
                                    StartedAt |-> t,
                                    FinishesAt |-> t + c.CraftDurationSecs * TicksPerSec,
                                    ScrapCost |-> c.CraftComponentCost]]]

\* claimCraftedComponentLocked leaving the claimed job in place
claimCraftedComponentLocked_KeepJob(st, t) ==
    IF ~st.ActiveCraft.present
    THEN [gained |-> 0, err |-> ErrNoActiveCraft, state |-> st]
    ELSE IF t < st.ActiveCraft.FinishesAt
    THEN [gained |-> 0, err |-> ErrCraftNotComplete, state |-> st]
    ELSE [gained |-> 1, err |-> ErrNone,
          state |-> [st EXCEPT !.Components = Wrap(st.Components + 1)]]

\* claimCraftedComponentLocked refusing a claim at the very finishing time
claimCraftedComponentLocked_BoundaryFails(st, t) ==
    IF ~st.ActiveCraft.present
    THEN [gained |-> 0, err |-> ErrNoActiveCraft, state |-> st]
    ELSE IF t <= st.ActiveCraft.FinishesAt
    THEN [gained |-> 0, err |-> ErrCraftNotComplete, state |-> st]
    ELSE [gained |-> 1, err |-> ErrNone,
          state |-> [st EXCEPT !.Components = Wrap(st.Components + 1),
                               !.ActiveCraft = NoJob]]

\* claimCraftedComponentLocked counting the item before it looks at the job
claimCraftedComponentLocked_CountFirst(st, t) ==
    LET counted == [st EXCEPT !.Components = Wrap(st.Components + 1)]
    IN  IF ~st.ActiveCraft.present
        THEN [gained |-> 0, err |-> ErrNoActiveCraft, state |-> counted]
        ELSE IF t < st.ActiveCraft.FinishesAt
        THEN [gained |-> 0, err |-> ErrCraftNotComplete, state |-> counted]
        ELSE [gained |-> 1, err |-> ErrNone,
              state |-> [counted EXCEPT !.ActiveCraft = NoJob]]

claimCraftedComponentLocked(st, t) ==
    IF ~st.ActiveCraft.present
    THEN [gained |-> 0, err |-> ErrNoActiveCraft, state |-> st]
    ELSE IF t < st.ActiveCraft.FinishesAt
    THEN [gained |-> 0, err |-> ErrCraftNotComplete, state |-> st]
    ELSE [gained |-> 1, err |-> ErrNone,
          state |-> [st EXCEPT !.Components = Wrap(st.Components + 1),
                               !.ActiveCraft = NoJob]]

\* cancelCraftLocked clearing the job without the refund
cancelCraftLocked_NoRefund(st) ==
    IF ~st.ActiveCraft.present
    THEN [err |-> ErrNoActiveCraft, state |-> st]
    ELSE [err |-> ErrNone, state |-> [st EXCEPT !.ActiveCraft = NoJob]]

\* cancelCraftLocked refunding the cost and leaving the job in place
cancelCraftLocked_KeepJob(st) ==
    IF ~st.ActiveCraft.present
    THEN [err |-> ErrNoActiveCraft, state |-> st]
    ELSE [err |-> ErrNone,
          state |-> [st EXCEPT !.Scrap = Wrap(st.Scrap + st.ActiveCraft.ScrapCost)]]

\* cancelCraftLocked closing the gate again when it clears the job
cancelCraftLocked_Relocks(st) ==
    IF ~st.ActiveCraft.present
    THEN [err |-> ErrNoActiveCraft, state |-> st]
    ELSE [err |-> ErrNone,
          state |-> [st EXCEPT !.Scrap = Wrap(st.Scrap + st.ActiveCraft.ScrapCost),
                               !.CraftingUnlocked = FALSE,
                               !.ActiveCraft = NoJob]]

\* cancelCraftLocked granting the item of a job that had been paid for
cancelCraftLocked_GrantsItem(st) ==
    IF ~st.ActiveCraft.present
    THEN [err |-> ErrNoActiveCraft, state |-> st]
    ELSE [err |-> ErrNone,
          state |-> [st EXCEPT !.Components = Wrap(st.Components + 1),
                               !.ActiveCraft = NoJob]]

cancelCraftLocked(st) ==
    IF ~st.ActiveCraft.present
    THEN [err |-> ErrNoActiveCraft, state |-> st]
    ELSE [err |-> ErrNone,
          state |-> [st EXCEPT !.Scrap = Wrap(st.Scrap + st.ActiveCraft.ScrapCost),
                               !.ActiveCraft = NoJob]]

\* Execute settling only for the commands that are not ClaimCraftedComponent or CancelCraft
SettleFirst_NotClaimCancel(cmd, st, c, t) ==
    IF cmd \in {CmdClaim, CmdCancel}
    THEN [minted |-> 0, from |-> st.LastSettledAt, to |-> st.LastSettledAt, state |-> st]
    ELSE settleLocked(st, c, t)

\* Execute settles before it looks at the command
SettleFirst(cmd, st, c, t) == settleLocked(st, c, t)

\* the type switch running the cancel for SyncState as well
Transition_SyncCancels(cmd, st, c, t) ==
    IF cmd = CmdUnlock
    THEN LET r == unlockComponentCraftingLocked(st, c)
         IN  [err |-> r.err, state |-> r.state, gained |-> 0]
    ELSE IF cmd \in StartCommands
    THEN LET r == craftComponentLocked(st, c, t)
         IN  [err |-> r.err, state |-> r.state, gained |-> 0]
    ELSE IF cmd = CmdClaim
    THEN claimCraftedComponentLocked(st, t)
    ELSE IF cmd \in {CmdCancel, CmdSyncState}
    THEN LET r == cancelCraftLocked(st)
         IN  [err |-> r.err, state |-> r.state, gained |-> 0]
    ELSE [err |-> ErrNone, state |-> st, gained |-> 0]

\* the transition selected by the type switch of Execute
Transition(cmd, st, c, t) ==
    IF cmd = CmdUnlock
    THEN LET r == unlockComponentCraftingLocked(st, c)
         IN  [err |-> r.err, state |-> r.state, gained |-> 0]
    ELSE IF cmd \in StartCommands
    THEN LET r == craftComponentLocked(st, c, t)
         IN  [err |-> r.err, state |-> r.state, gained |-> 0]
    ELSE IF cmd = CmdClaim
    THEN claimCraftedComponentLocked(st, t)
    ELSE IF cmd = CmdCancel
    THEN LET r == cancelCraftLocked(st)
         IN  [err |-> r.err, state |-> r.state, gained |-> 0]
    ELSE [err |-> ErrNone, state |-> st, gained |-> 0]

\* the settlement event appended whether or not something was minted
SettlementEvents_Always(seq, s, at, commandID) ==
    <<NewEvent(Wrap(seq + 1), at, commandID, EventTypeScrapSettled,
               [kind |-> "ScrapSettledData", Minted |-> s.minted,
                From |-> s.from, To |-> s.to])>>

\* whether the transition of a command gets as far as its call of s.clock.Now()
ReadsClock(cmd, st, c) ==
    \/ /\ cmd \in StartCommands
       /\ st.CraftingUnlocked
       /\ ~st.ActiveCraft.present
       /\ st.Scrap >= c.CraftComponentCost
    \/ /\ cmd = CmdClaim
       /\ st.ActiveCraft.present

\* the settlement event stamped with the counter before it is incremented
SettlementEvents_StaleSequence(seq, s, at, commandID) ==
    IF s.minted > 0
    THEN <<NewEvent(seq, at, commandID, EventTypeScrapSettled,
                    [kind |-> "ScrapSettledData", Minted |-> s.minted,
                     From |-> s.from, To |-> s.to])>>
    ELSE <<>>

\* the settlement event appended whenever the cursor moved
SettlementEvents_WhenCursorMoved(seq, s, at, commandID) ==
    IF s.to # s.from
    THEN <<NewEvent(Wrap(seq + 1), at, commandID, EventTypeScrapSettled,
                    [kind |-> "ScrapSettledData", Minted |-> s.minted,
                     From |-> s.from, To |-> s.to])>>
    ELSE <<>>

\* the settlement event stamped with the new cursor instead of a clock reading
SettlementEvents_StampedWithCursor(seq, s, at, commandID) ==
    IF s.minted > 0
    THEN <<NewEvent(Wrap(seq + 1), s.to, commandID, EventTypeScrapSettled,
                    [kind |-> "ScrapSettledData", Minted |-> s.minted,
                     From |-> s.from, To |-> s.to])>>
    ELSE <<>>

\* the settlement event of Execute: appended only when something was minted
SettlementEvents(seq, s, at, commandID) ==
    IF s.minted > 0
    THEN <<NewEvent(Wrap(seq + 1), at, commandID, EventTypeScrapSettled,
                    [kind |-> "ScrapSettledData", Minted |-> s.minted,
                     From |-> s.from, To |-> s.to])>>
    ELSE <<>>

\* the event of a successful claim
ClaimedEvents(seq, at, commandID, gained) ==
    <<NewEvent(Wrap(seq + 1), at, commandID, EventTypeComponentCraftClaimed,
               [kind |-> "ComponentCraftClaimedData", Gained |-> gained])>>

\* the command events stamped with the counter before it is incremented
CommandEvents_StaleSequence(cmd, r, seq, at, commandID, c) ==
    IF r.err # ErrNone
    THEN <<>>
    ELSE IF cmd = CmdUnlock
    THEN <<NewEvent(seq, at, commandID, EventTypeCraftingUnlocked,
                    [kind |-> "CraftingUnlockedData",
                     Cost |-> ToInt64(c.CraftComponentTechnologyCost)])>>
    ELSE IF cmd \in StartCommands
    THEN <<NewEvent(seq, at, commandID, EventTypeComponentCraftStarted,
                    [kind |-> "ComponentCraftStartedData",
                     Cost |-> ToInt64(c.CraftComponentCost),
                     FinishesAt |-> r.state.ActiveCraft.FinishesAt])>>
    ELSE IF cmd = CmdClaim
    THEN ClaimedEvents(seq, at, commandID, r.gained)
    ELSE <<>>

\* the CraftingUnlocked event appended before the transition's error is looked at
CommandEvents_UnlockOnFailure(cmd, r, seq, at, commandID, c) ==
    IF cmd = CmdUnlock
    THEN <<NewEvent(Wrap(seq + 1), at, commandID, EventTypeCraftingUnlocked,
                    [kind |-> "CraftingUnlockedData",
                     Cost |-> ToInt64(c.CraftComponentTechnologyCost)])>>
    ELSE IF r.err # ErrNone
    THEN <<>>
    ELSE IF cmd \in StartCommands
    THEN <<NewEvent(Wrap(seq + 1), at, commandID, EventTypeComponentCraftStarted,
                    [kind |-> "ComponentCraftStartedData",
                     Cost |-> ToInt64(c.CraftComponentCost),
                     FinishesAt |-> r.state.ActiveCraft.FinishesAt])>>
    ELSE IF cmd = CmdClaim
    THEN ClaimedEvents(seq, at, commandID, r.gained)
    ELSE <<>>

\* the legacy CraftComponent command appending no event
CommandEvents_LegacyCraftSilent(cmd, r, seq, at, commandID, c) ==
    IF r.err # ErrNone
    THEN <<>>
    ELSE IF cmd = CmdUnlock
    THEN <<NewEvent(Wrap(seq + 1), at, commandID, EventTypeCraftingUnlocked,
                    [kind |-> "CraftingUnlockedData",
                     Cost |-> ToInt64(c.CraftComponentTechnologyCost)])>>
    ELSE IF cmd = CmdStartCraft
    THEN <<NewEvent(Wrap(seq + 1), at, commandID, EventTypeComponentCraftStarted,
                    [kind |-> "ComponentCraftStartedData",
                     Cost |-> ToInt64(c.CraftComponentCost),
                     FinishesAt |-> r.state.ActiveCraft.FinishesAt])>>
    ELSE IF cmd = CmdClaim
    THEN ClaimedEvents(seq, at, commandID, r.gained)
    ELSE <<>>

\* the command-specific events of Execute, appended after the transition
CommandEvents(cmd, r, seq, at, commandID, c) ==
    IF r.err # ErrNone
    THEN <<>>
    ELSE IF cmd = CmdUnlock
    THEN <<NewEvent(Wrap(seq + 1), at, commandID, EventTypeCraftingUnlocked,
                    [kind |-> "CraftingUnlockedData",
                     Cost |-> ToInt64(c.CraftComponentTechnologyCost)])>>
    ELSE IF cmd \in StartCommands
    THEN <<NewEvent(Wrap(seq + 1), at, commandID, EventTypeComponentCraftStarted,
                    [kind |-> "ComponentCraftStartedData",
                     Cost |-> ToInt64(c.CraftComponentCost),
                     FinishesAt |-> r.state.ActiveCraft.FinishesAt])>>
    ELSE IF cmd = CmdClaim
    THEN ClaimedEvents(seq, at, commandID, r.gained)
    ELSE <<>>

\* ------------------------------------------------------------ call frames
NoCall == [cmd |-> "none"]
NoResult == [cmd |-> "none", err |-> ErrNone, won |-> "none", waiters |-> {}]
NoView == [kind |-> "none"]

\* history: the transition a command stands for in a race between callers
Kind(cmd) ==
    IF cmd = CmdUnlock THEN "Unlock"
    ELSE IF cmd \in StartCommands THEN "Start"
    ELSE IF cmd = CmdClaim THEN "Claim"
    ELSE IF cmd = CmdCancel THEN "Cancel"
    ELSE "none"

\* history: the tally after a call of cmd returned err
Tally(n, cmd, err) ==
    IF err # ErrNone THEN n
    ELSE IF cmd \in StartCommands THEN [n EXCEPT !.starts = @ + 1]
    ELSE IF cmd = CmdClaim THEN [n EXCEPT !.claims = @ + 1]
    ELSE IF cmd = CmdCancel THEN [n EXCEPT !.cancels = @ + 1]
    ELSE n

\* history: the Execute call that returned right before caller p took the
\* mutex for cmd; kept for a Settle or SyncState that was blocked in Lock while
\* a call of the same command ran, and for a CancelCraft right after a
\* successful start
NoPrior == [cmd |-> "none"]
Prior(p, cmd) ==
    IF \/ cmd \in {CmdSettle, CmdSyncState} /\ last.cmd = cmd /\ p \in last.waiters
       \/ cmd = CmdCancel /\ last.cmd \in StartCommands /\ last.err = ErrNone
    THEN [cmd |-> last.cmd, at |-> last.at, tr |-> last.tr, minted |-> last.minted,
          out |-> last.out, pre |-> last.pre, preLen |-> last.preLen]
    ELSE NoPrior

\* ----------------------------------------------------------------- Init
\* NewGameService(cfg, clock, startTime)
NewGameService(c, startTime) ==
    /\ cfg = c
    /\ state = NewState(startTime)
    /\ eventSequence = 0
    /\ events = <<>>
    /\ mu = 0

InitCommon ==
    /\ \E c \in Configs : NewGameService(c, StartTime)
    /\ pc = [p \in Procs |-> "idle"]
    /\ call = [p \in Procs |-> NoCall]
    /\ last = NoResult
    /\ view = NoView
    /\ totalMinted = 0
    /\ clockMonotone = TRUE
    /\ nCalls = 0
    /\ tally = [starts |-> 0, claims |-> 0, cancels |-> 0]

\* a clock whose readings never decrease
Init == InitCommon /\ now = StartTime /\ skew = FALSE

\* a clock that may return any reading at any time
InitSkew == InitCommon /\ now = StartTime /\ skew = TRUE

\* a service whose first call comes late: the clock, whose readings never
\* decrease, has reached LateTime by then
InitLate == InitCommon /\ now = LateTime /\ skew = FALSE

\* a service constructed with a Config from the upper half of the range
InitWide ==
    /\ \E c \in WideConfigs : NewGameService(c, StartTime)
    /\ pc = [p \in Procs |-> "idle"]
    /\ call = [p \in Procs |-> NoCall]
    /\ last = NoResult
    /\ view = NoView
    /\ totalMinted = 0
    /\ clockMonotone = TRUE
    /\ nCalls = 0
    /\ tally = [starts |-> 0, claims |-> 0, cancels |-> 0]
    /\ now = StartTime
    /\ skew = FALSE

\* -------------------------------------------------------------- actions
\* a mutex that lets a caller in while another one holds it
Lock_NoWait(m) == TRUE

\* s.mu.Lock() returns only while no caller holds the mutex
Lock(m) == m = 0

\* the mutex left held when the call returns an error
Unlock_NotOnError(p, err) == IF err = ErrNone THEN 0 ELSE p

\* defer s.mu.Unlock(): the mutex is free again on every return path
Unlock(p, err) == 0

\* the readings s.clock.Now() may return after it returned prev
Readings(prev) == {t \in Times : skew \/ t >= prev}

\* a caller enters Execute and blocks on s.mu.Lock()
Invoke(p) ==
    /\ pc[p] = "idle"
    /\ nCalls < (IF skew THEN MaxCallsSkew ELSE MaxCalls)
    /\ pc' = [pc EXCEPT ![p] = "wait"]
    /\ nCalls' = nCalls + 1
    /\ view' = NoView
    /\ UNCHANGED <<cfg, now, skew, state, eventSequence, events, mu, call, last,
                   totalMinted, clockMonotone, tally>>

\* Execute(cmd), first half: take the mutex, settle (settleLocked reads the
\* clock: t), append the settlement event (events.New is given a reading of
\* its own: te, taken only when something was minted)
ExecSettle(p, cmd, t) ==
    /\ pc[p] = "wait"
    /\ Lock(mu)
    /\ t \in Readings(now)
    /\ LET s == SettleFirst(cmd, state, cfg, t)
       IN  \E te \in (IF s.minted > 0 THEN Readings(t) ELSE {t}) :
             LET evs == SettlementEvents(eventSequence, s, te, CommandID(cmd))
             IN  /\ state' = s.state
                 /\ events' = events \o evs
                 /\ eventSequence' = Wrap(eventSequence + Len(evs))
                 /\ totalMinted' = totalMinted + s.minted
                 /\ call' = [call EXCEPT ![p] =
                               [cmd |-> cmd, id |-> CommandID(cmd),
                                pre |-> state, preLen |-> Len(events),
                                at |-> t, lastRead |-> now, minted |-> s.minted,
                                eventsList |-> evs,
                                after |-> IF p \in last.waiters THEN last.won ELSE "none",
                                prior |-> Prior(p, cmd)]]
                 /\ now' = te
                 /\ clockMonotone' = (clockMonotone /\ t >= now /\ te >= t)
    /\ last' = NoResult
    /\ view' = NoView
    /\ mu' = p
    /\ pc' = [pc EXCEPT ![p] = "apply"]
    /\ UNCHANGED <<cfg, skew, nCalls, tally>>

\* Execute(cmd), second half: the transition (craftComponentLocked and
\* claimCraftedComponentLocked read the clock once they get that far: tr), its
\* event (with a reading of its own: te), the snapshot, and the deferred
\* s.mu.Unlock(); the caller receives (Result, err)
ExecApply(p) ==
    /\ pc[p] = "apply"
    /\ mu = p
    /\ LET c == call[p]
       IN  \E tr \in (IF ReadsClock(c.cmd, state, cfg) THEN Readings(now) ELSE {now}) :
             LET r == Transition(c.cmd, state, cfg, tr)
                 appends == CommandEvents(c.cmd, r, eventSequence, tr, c.id, cfg) # <<>>
             IN  \E te \in (IF appends THEN Readings(tr) ELSE {tr}) :
                   LET evs == CommandEvents(c.cmd, r, eventSequence, te, c.id, cfg)
                   IN  /\ state' = r.state
                       /\ events' = events \o evs
                       /\ eventSequence' = Wrap(eventSequence + Len(evs))
                       /\ last' = [cmd |-> c.cmd, id |-> c.id,
                                   pre |-> c.pre, preLen |-> c.preLen,
                                   at |-> c.at, minted |-> c.minted,
                                   tr |-> tr,
                                   eventsList |-> c.eventsList \o evs,
                                   err |-> r.err,
                                   out |-> IF c.cmd = CmdSettle THEN c.minted ELSE r.gained,
                                   State |-> snapshotLocked(r.state),
                                   jobCell |-> snapshotJobCell(r.state),
                                   mutated |-> FALSE,
                                   after |-> c.after,
                                   prior |-> c.prior,
                                   won |-> IF r.err = ErrNone THEN Kind(c.cmd) ELSE c.after,
                                   waiters |-> {q \in Procs : pc[q] = "wait"}]
                       /\ now' = te
                       /\ clockMonotone' = (clockMonotone /\ tr >= now /\ te >= tr)
                       /\ mu' = Unlock(p, r.err)
                       /\ tally' = Tally(tally, c.cmd, r.err)
    /\ pc' = [pc EXCEPT ![p] = "idle"]
    /\ call' = [call EXCEPT ![p] = NoCall]
    /\ UNCHANGED <<cfg, skew, view, totalMinted, nCalls>>

\* GetState settling before it takes the snapshot
GetState_Settles ==
    /\ Lock(mu)
    /\ nCalls < (IF skew THEN MaxCallsSkew ELSE MaxCalls)
    /\ nCalls' = nCalls + 1
    /\ \E t \in Readings(now) :
          LET s == settleLocked(state, cfg, t)
          IN  /\ state' = s.state
              /\ totalMinted' = totalMinted + s.minted
              /\ now' = t
              /\ clockMonotone' = (clockMonotone /\ t >= now)
              /\ view' = [kind |-> "GetState",
                          State |-> snapshotLocked(s.state),
                          jobCell |-> snapshotJobCell(s.state),
                          mutated |-> FALSE]
    /\ last' = NoResult
    /\ UNCHANGED <<cfg, skew, eventSequence, events, mu, pc, call, tally>>

\* GetState(): lock, snapshot, unlock
GetState ==
    /\ Lock(mu)
    /\ nCalls < (IF skew THEN MaxCallsSkew ELSE MaxCalls)
    /\ nCalls' = nCalls + 1
    /\ view' = [kind |-> "GetState",
                State |-> snapshotLocked(state),
                jobCell |-> snapshotJobCell(state),
                mutated |-> FALSE]
    /\ last' = NoResult
    /\ UNCHANGED <<cfg, now, skew, state, eventSequence, events, mu, pc, call,
                   totalMinted, clockMonotone, tally>>

\* ListEvents(sinceID, limit): lock, filter, copy, unlock
ListEventsCall(sinceID, limit) ==
    /\ Lock(mu)
    /\ nCalls < (IF skew THEN MaxCallsSkew ELSE MaxCalls)
    /\ nCalls' = nCalls + 1
    /\ view' = [kind |-> "ListEvents", sinceID |-> sinceID, limit |-> limit,
                out |-> ListEvents(events, sinceID, limit),
                array |-> ListEventsArray(events, sinceID, limit),
                mutated |-> FALSE]
    /\ last' = NoResult
    /\ UNCHANGED <<cfg, now, skew, state, eventSequence, events, mu, pc, call,
                   totalMinted, clockMonotone, tally>>

\* what a write through a pointer to the service's own CraftJob does to it
ScribbleJob(st) == [st EXCEPT !.ActiveCraft.ScrapCost = Wrap(@ + 1)]

\* what a write into the service's own event array does to it
ScribbleEvent(log, k) == [log EXCEPT ![k].Type = "mutated"]

\* the caller of GetState or Execute writes to the Job of the snapshot it was
\* given (the other fields of a snapshot are the caller's own struct); the
\* write lands in the service's job when the snapshot points to it
MutateSnapshot ==
    /\ \/ /\ view.kind = "GetState"
          /\ ~view.mutated
          /\ view.jobCell # "nil"
          /\ view' = [view EXCEPT !.mutated = TRUE]
          /\ state' = IF view.jobCell = "shared" /\ state.ActiveCraft.present
                      THEN ScribbleJob(state) ELSE state
          /\ last' = last
       \/ /\ last.cmd # "none"
          /\ ~last.mutated
          /\ last.jobCell # "nil"
          /\ last' = [last EXCEPT !.mutated = TRUE]
          /\ state' = IF last.jobCell = "shared" /\ state.ActiveCraft.present
                      THEN ScribbleJob(state) ELSE state
          /\ view' = view
    /\ UNCHANGED <<cfg, now, skew, eventSequence, events, mu, pc, call,
                   totalMinted, clockMonotone, nCalls, tally>>

\* the caller of ListEvents writes to the first event of the slice it was
\* given; the write lands in the log when the slice shares the log's array
MutateListed ==
    /\ view.kind = "ListEvents"
    /\ ~view.mutated
    /\ view.out # <<>>
    /\ view' = [view EXCEPT !.mutated = TRUE]
    /\ events' = IF view.array = "shared" /\ view.out[1].ID \in 1..Len(events)
                 THEN ScribbleEvent(events, view.out[1].ID) ELSE events
    /\ UNCHANGED <<cfg, now, skew, state, eventSequence, mu, pc, call, last,
                   totalMinted, clockMonotone, nCalls, tally>>

Next ==
    \/ \E p \in Procs : Invoke(p)
    \/ \E p \in Procs, cmd \in Commands, t \in Times : ExecSettle(p, cmd, t)
    \/ \E p \in Procs : ExecApply(p)
    \/ GetState
    \/ \E sinceID \in 0..MaxSince, limit \in (0 - 1)..MaxLimit : ListEventsCall(sinceID, limit)
    \/ MutateSnapshot
    \/ MutateListed

Spec == Init /\ [][Next]_vars

SpecSkew == InitSkew /\ [][Next]_vars

\* the scheduling the runtime provides: a caller that holds the mutex runs on
\* to its return, and a caller blocked in Lock gets the mutex once it has been
\* free often enough (sync.Mutex hands the lock to a starving waiter)
Fairness ==
    \A p \in Procs :
        /\ WF_vars(ExecApply(p))
        /\ SF_vars(\E cmd \in Commands, t \in Times : ExecSettle(p, cmd, t))

SpecFair == InitLate /\ [][Next]_vars /\ Fairness

SpecWide == InitWide /\ [][Next]_vars

\* ------------------------------------------------ vocabulary of the claims
\* an Execute call has completed and nothing has run since
Done == last.cmd # "none"

\* callers that hold the mutex, between the settlement and the transition
Settled == {p \in Procs : pc[p] = "apply"}

\* the whole seconds between the cursor a call found and its clock reading
WholeSecs(f) ==
    IF f.at >= f.pre.LastSettledAt
    THEN (f.at - f.pre.LastSettledAt) \div TicksPerSec
    ELSE 0

\* the balance and the cursor a call's settlement should leave
CreditedScrap(f) == (f.pre.Scrap + WholeSecs(f) * cfg.BaseScrapProduction) % UintMod
AdvancedCursor(f) == f.pre.LastSettledAt + WholeSecs(f) * TicksPerSec

\* C1: with a clock whose readings never decrease, after any settlement at a
\* reading at or after the start time, everything minted since construction
\* adds up to (whole seconds from the start time to the reading) * accrualRate,
\* however many settlements there were on the way.
C1_OrderIndependentAccrual ==
    \A p \in Settled :
        (clockMonotone /\ call[p].at >= StartTime)
            => totalMinted = ((call[p].at - StartTime) \div TicksPerSec) * cfg.BaseScrapProduction

\* a settlement that mints after an earlier call left a sub-second remainder
C1_Witness ==
    \E p \in Settled :
        /\ nCalls >= 2
        /\ call[p].minted > 0
        /\ call[p].lastRead > call[p].pre.LastSettledAt
        /\ call[p].lastRead < call[p].at
        /\ (call[p].lastRead - call[p].pre.LastSettledAt) % TicksPerSec # 0
        /\ (call[p].at - call[p].pre.LastSettledAt) < 2 * TicksPerSec

\* C2: when less than one whole second lies between the cursor and the clock
\* reading (no advance, a sub-second advance, or a reading before the cursor),
\* settlement mints 0 and leaves the State as it was; Settle then returns 0.
C2_NoOpSettlement ==
    /\ \A p \in Settled :
          call[p].at - call[p].pre.LastSettledAt < TicksPerSec
              => /\ call[p].minted = 0
                 /\ state = call[p].pre
    /\ (Done /\ last.cmd = CmdSettle /\ last.at - last.pre.LastSettledAt < TicksPerSec)
          => (last.out = 0 /\ last.State = last.pre)

\* a settlement at a reading a whole second or more before the cursor
C2_Witness ==
    \E p \in Settled :
        /\ call[p].pre.LastSettledAt > StartTime
        /\ call[p].at + TicksPerSec <= call[p].pre.LastSettledAt
        /\ cfg.BaseScrapProduction > 0
        /\ call[p].minted = 0

C4_StateUnchangedAfterError ==
    (Done /\ last.err # ErrNone) => last.State = last.pre

\* C4 as amended: after an error the item count, the unlocked flag and the job
\* are what they were before the call, and the balance and the cursor differ
\* from before only by the call's own settlement; when no whole second had
\* elapsed every State field is unchanged.
C4_FailedTransitionChangesNothing ==
    (Done /\ last.err # ErrNone)
        => /\ last.State = [last.pre EXCEPT !.Scrap = CreditedScrap(last),
                                             !.LastSettledAt = AdvancedCursor(last)]
           /\ WholeSecs(last) = 0 => last.State = last.pre

\* a command that failed after its settlement had minted
C4_Witness ==
    /\ Done
    /\ last.err = ErrCraftNotComplete
    /\ last.minted > 0

\* the events a completed call appended after its settlement event
SettlementPart(f) == SelectSeq(f.eventsList, LAMBDA e : e.Type = EventTypeScrapSettled)
CommandPart(f) == SelectSeq(f.eventsList, LAMBDA e : e.Type # EventTypeScrapSettled)

\* C5: a StartCraft on an unlocked, idle service whose settled balance covers
\* the craft cost succeeds, takes exactly one craftCost and leaves one job; every
\* StartCraft that was waiting meanwhile then returns JobInProgress and, with
\* no accrual in between, changes nothing - so of the concurrent callers exactly
\* one succeeds.
C5_SingleActiveJob ==
    Done /\ last.cmd \in StartCommands =>
        /\ (last.pre.CraftingUnlocked /\ ~last.pre.ActiveCraft.present
                /\ CreditedScrap(last) >= cfg.CraftComponentCost)
              => /\ last.err = ErrNone
                 /\ last.State.Scrap = CreditedScrap(last) - cfg.CraftComponentCost
                 /\ last.State.ActiveCraft.present
                 /\ state = last.State
        /\ last.after = "Start"
              => /\ last.err = ErrCraftInProgress
                 /\ last.State.ActiveCraft = last.pre.ActiveCraft
                 /\ last.minted = 0 => last.State.Scrap = last.pre.Scrap

\* the loser of a race of two StartCraft calls for funds that cover one
C5_Witness ==
    /\ Done
    /\ last.cmd \in StartCommands
    /\ last.after = "Start"
    /\ last.err = ErrCraftInProgress
    /\ last.minted = 0
    /\ last.State.Scrap < cfg.CraftComponentCost
    /\ last.State.ActiveCraft.present

\* C6: ClaimCraft on a due job succeeds with one item and no refund, CancelCraft
\* on a job succeeds with the refund and no item, each clears the job; whichever
\* of the two ran second, having waited for the first, returns NoActiveJob and,
\* with no accrual in between, changes nothing - never both benefits, never
\* neither.
C6_ClaimCancelExclusion ==
    /\ (Done /\ last.cmd = CmdClaim /\ last.pre.ActiveCraft.present
            /\ last.tr >= last.pre.ActiveCraft.FinishesAt)
          => /\ last.err = ErrNone
             /\ last.State.Components = last.pre.Components + 1
             /\ last.State.Scrap = CreditedScrap(last)
             /\ ~last.State.ActiveCraft.present
    /\ (Done /\ last.cmd = CmdCancel /\ last.pre.ActiveCraft.present)
          => /\ last.err = ErrNone
             /\ last.State.Components = last.pre.Components
             /\ last.State.Scrap = CreditedScrap(last) + last.pre.ActiveCraft.ScrapCost
             /\ ~last.State.ActiveCraft.present
    /\ (Done /\ (\/ last.cmd = CmdCancel /\ last.after = "Claim"
                 \/ last.cmd = CmdClaim /\ last.after = "Cancel"))
          => /\ last.err = ErrNoActiveCraft
             /\ ~last.State.ActiveCraft.present
             /\ last.State.Components = last.pre.Components
             /\ last.minted = 0 => last.State.Scrap = last.pre.Scrap

\* a CancelCraft that waited for the ClaimCraft that took the due job
C6_Witness ==
    /\ Done
    /\ last.cmd = CmdCancel
    /\ last.after = "Claim"
    /\ last.err = ErrNoActiveCraft
    /\ last.minted = 0
    /\ last.State.Components = 1

\* C7: an UnlockCrafting on a locked service whose settled balance covers the
\* unlock cost succeeds and takes exactly one unlockCost; every UnlockCrafting
\* that was waiting meanwhile returns AlreadyUnlocked, never
\* InsufficientResource, and with no accrual in between changes nothing.
C7_UnlockExactlyOnce ==
    Done /\ last.cmd = CmdUnlock =>
        /\ (~last.pre.CraftingUnlocked
                /\ CreditedScrap(last) >= cfg.CraftComponentTechnologyCost)
              => /\ last.err = ErrNone
                 /\ last.State.Scrap = CreditedScrap(last) - cfg.CraftComponentTechnologyCost
                 /\ last.State.CraftingUnlocked
        /\ last.after = "Unlock"
              => /\ last.err = ErrAlreadyUnlocked
                 /\ last.State.CraftingUnlocked
                 /\ last.minted = 0 => last.State.Scrap = last.pre.Scrap

\* the loser of a race of two UnlockCrafting calls, left with less than the cost
C7_Witness ==
    /\ Done
    /\ last.cmd = CmdUnlock
    /\ last.after = "Unlock"
    /\ last.err = ErrAlreadyUnlocked
    /\ last.minted = 0
    /\ last.State.Scrap < cfg.CraftComponentTechnologyCost

\* C8: an Execute call appends and returns exactly one ScrapSettled event when
\* its settlement minted something and none when it minted nothing; the log
\* grows by exactly the events the call returns, so a SyncState that minted
\* nothing returns no event and leaves the log as it was.
C8_SettlementEventIffMinted ==
    /\ \A p \in Settled :
          /\ Len(call[p].eventsList) = (IF call[p].minted > 0 THEN 1 ELSE 0)
          /\ events = SubSeq(events, 1, call[p].preLen) \o call[p].eventsList
    /\ Done =>
          /\ Len(SettlementPart(last)) = (IF last.minted > 0 THEN 1 ELSE 0)
          /\ Len(events) = last.preLen + Len(last.eventsList)
          /\ SubSeq(events, last.preLen + 1, Len(events)) = last.eventsList
          /\ (last.cmd = CmdSyncState /\ last.minted = 0) => last.eventsList = <<>>

\* a SyncState after a sub-second advance, the log not empty
C8_Witness ==
    /\ Done
    /\ last.cmd = CmdSyncState
    /\ last.at > last.pre.LastSettledAt
    /\ last.at - last.pre.LastSettledAt < TicksPerSec
    /\ last.eventsList = <<>>
    /\ Len(events) > 0

\* C9: a call that returns an error appended and returned nothing but its
\* settlement event; if it minted nothing the log has not grown and the
\* returned list is empty.
C9_NoCommandEventOnFailure ==
    (Done /\ last.err # ErrNone)
        => /\ CommandPart(last) = <<>>
           /\ Len(last.eventsList) <= 1
           /\ Len(events) = last.preLen + Len(last.eventsList)
           /\ last.minted = 0 => (last.eventsList = <<>> /\ Len(events) = last.preLen)

\* a failed call whose settlement minted: one event, the settlement
C9_Witness ==
    /\ Done
    /\ last.err # ErrNone
    /\ last.minted > 0
    /\ Len(last.eventsList) = 1
    /\ last.eventsList[1].Type = EventTypeScrapSettled

C11_SettlementBeforeCommandEvent ==
    Done =>
        /\ \A i \in 1..Len(last.eventsList) :
              last.eventsList[i].Type = EventTypeScrapSettled => i = 1
        /\ \A i \in 1..Len(last.eventsList), j \in 1..Len(last.eventsList) :
              i < j => last.eventsList[i].ID < last.eventsList[j].ID
        /\ (last.err = ErrNone /\ last.minted > 0
                /\ last.cmd \in {CmdUnlock} \cup StartCommands)
              => /\ Len(last.eventsList) = 2
                 /\ last.eventsList[1].Type = EventTypeScrapSettled
                 /\ last.eventsList[2].Type =
                        (IF last.cmd = CmdUnlock THEN EventTypeCraftingUnlocked
                                                 ELSE EventTypeComponentCraftStarted)

\* a successful Unlock that also minted, in a log that already held events
C11_Witness ==
    /\ Done
    /\ last.cmd = CmdUnlock
    /\ last.err = ErrNone
    /\ last.minted > 0
    /\ last.preLen > 0
    /\ Len(last.eventsList) = 2
    /\ last.eventsList[1].ID < last.eventsList[2].ID

\* C12: in every reachable state the k-th event of the log has id k, so the ids
\* start at 1 and are unique, gapless and increasing in append order, whoever
\* appended them.
C12_EventIdsCountUp ==
    /\ \A k \in 1..Len(events) : events[k].ID = k
    /\ eventSequence = Len(events)

\* a log of four or more events appended by calls of two overlapping callers
C12_Witness ==
    /\ Len(events) >= 4
    /\ \E i \in 1..Len(events), j \in 1..Len(events) :
          events[i].CommandID # events[j].CommandID
    /\ Done
    /\ last.after # "none"

\* the events of a log with id > sinceID, cut to the first limit when limit > 0
ExpectedListing(log, sinceID, limit) ==
    LET sel == SelectSeq(log, LAMBDA e : e.ID > sinceID)
    IN  IF limit > 0 /\ Len(sel) > limit THEN SubSeq(sel, 1, limit) ELSE sel

\* C13: ListEvents(sinceID, limit) returns, in ascending id order, exactly the
\* events of the log with id > sinceID, cut to the first limit of them when
\* limit > 0 and uncut when limit <= 0; after the caller wrote to a returned
\* event the log is as it was, so the same ListEvents returns the same again.
C13_ListEventsFilterLimitCopy ==
    view.kind = "ListEvents" =>
        /\ view.out = ExpectedListing(events, view.sinceID, view.limit)
        /\ \A i \in 1..Len(view.out), j \in 1..Len(view.out) :
              i < j => view.out[i].ID < view.out[j].ID
        /\ view.limit > 0 => Len(view.out) <= view.limit
        /\ view.mutated => ListEvents(events, view.sinceID, view.limit) = view.out

\* a listing that skipped the first event and was cut before the last, and
\* that the caller then wrote to
C13_Witness ==
    /\ view.kind = "ListEvents"
    /\ view.sinceID = 1
    /\ view.limit = 2
    /\ Len(events) >= 4
    /\ Len(view.out) = 2
    /\ view.out[1].ID = 2
    /\ view.mutated

\* C14: a snapshot returned by GetState or Execute is a copy of its own: after
\* the caller wrote to the Job of a returned snapshot the internal State is
\* what it was when the snapshot was taken, and so is what GetState returns.
C14_SnapshotIsolation ==
    /\ view.kind = "GetState"
          => /\ state = view.State
             /\ view.mutated => snapshotLocked(state) = view.State
    /\ (Done /\ last.mutated)
          => /\ state = last.State
             /\ snapshotLocked(state) = last.State

\* the caller of GetState wrote to the Job of its snapshot while the job runs
C14_Witness ==
    /\ view.kind = "GetState"
    /\ view.mutated
    /\ view.jobCell = "copy"
    /\ state.ActiveCraft.present

\* C15: UnlockCrafting returns AlreadyUnlocked when the flag is set, whatever
\* the balance; else InsufficientResource when the settled balance is below
\* unlockCost; else it succeeds, takes exactly unlockCost (a balance equal to
\* the cost becomes 0) and sets the flag; item count and job are untouched.
C15_UnlockTransition ==
    (Done /\ last.cmd = CmdUnlock) =>
        /\ last.err = (IF last.pre.CraftingUnlocked THEN ErrAlreadyUnlocked
                       ELSE IF CreditedScrap(last) < cfg.CraftComponentTechnologyCost
                       THEN ErrInsufficientScrap
                       ELSE ErrNone)
        /\ last.State.Scrap = (IF last.err = ErrNone
                               THEN CreditedScrap(last) - cfg.CraftComponentTechnologyCost
                               ELSE CreditedScrap(last))
        /\ last.State.CraftingUnlocked = (last.pre.CraftingUnlocked \/ last.err = ErrNone)
        /\ last.State.Components = last.pre.Components
        /\ last.State.ActiveCraft = last.pre.ActiveCraft

\* an unlock at a settled balance equal to the cost, leaving 0
C15_Witness ==
    /\ Done
    /\ last.cmd = CmdUnlock
    /\ last.err = ErrNone
    /\ CreditedScrap(last) = cfg.CraftComponentTechnologyCost
    /\ last.State.Scrap = 0
    /\ last.State.CraftingUnlocked

\* C16: StartCraft returns FeatureLocked when the flag is not set, whatever
\* else holds; else JobInProgress when a job is present, also with funds short;
\* else InsufficientResource when the settled balance is below craftCost; it
\* succeeds only when none of the three applies.
C16_StartFailurePrecedence ==
    (Done /\ last.cmd \in StartCommands) =>
        last.err = (IF ~last.pre.CraftingUnlocked THEN ErrCraftingLocked
                    ELSE IF last.pre.ActiveCraft.present THEN ErrCraftInProgress
                    ELSE IF CreditedScrap(last) < cfg.CraftComponentCost
                    THEN ErrInsufficientScrap
                    ELSE ErrNone)

\* a start, not in a race, that finds a job and has funds short of the cost
C16_Witness ==
    /\ Done
    /\ last.cmd = CmdStartCraft
    /\ last.after = "none"
    /\ last.pre.ActiveCraft.present
    /\ CreditedScrap(last) < cfg.CraftComponentCost
    /\ last.err = ErrCraftInProgress

\* C17: a successful StartCraft takes exactly craftCost from the settled
\* balance and creates the job with startedAt = the clock reading the start
\* took, finishesAt = startedAt + craftDuration seconds, scrapCost = craftCost;
\* item count and flag are unchanged.
C17_StartEffect ==
    (Done /\ last.cmd \in StartCommands /\ last.err = ErrNone) =>
        /\ last.State.Scrap = CreditedScrap(last) - cfg.CraftComponentCost
        /\ last.State.ActiveCraft.present
        /\ last.State.ActiveCraft.StartedAt = last.tr
        /\ last.State.ActiveCraft.FinishesAt
              = last.State.ActiveCraft.StartedAt + cfg.CraftDurationSecs * TicksPerSec
        /\ last.State.ActiveCraft.ScrapCost = cfg.CraftComponentCost
        /\ last.State.Components = last.pre.Components
        /\ last.State.CraftingUnlocked = last.pre.CraftingUnlocked
        /\ last.State.LastSettledAt = AdvancedCursor(last)

\* a start with a duration of a second, its reading later than the settlement's
C17_Witness ==
    /\ Done
    /\ last.cmd = CmdStartCraft
    /\ last.err = ErrNone
    /\ cfg.CraftDurationSecs = 1
    /\ last.tr > last.at
    /\ last.State.ActiveCraft.FinishesAt = last.tr + TicksPerSec

\* C18: ClaimCraft returns NoActiveJob when there is no job, JobNotComplete
\* when its clock reading is before the job's finishesAt, and succeeds
\* otherwise (also at finishesAt exactly): one item more, job cleared, 1
\* gained, no refund; a failed claim reports 0 gained and changes no item or job.
C18_ClaimTransition ==
    (Done /\ last.cmd = CmdClaim) =>
        /\ last.err = (IF ~last.pre.ActiveCraft.present THEN ErrNoActiveCraft
                       ELSE IF last.tr < last.pre.ActiveCraft.FinishesAt
                       THEN ErrCraftNotComplete
                       ELSE ErrNone)
        /\ last.State.Scrap = CreditedScrap(last)
        /\ last.err = ErrNone
              => /\ last.State.Components = last.pre.Components + 1
                 /\ ~last.State.ActiveCraft.present
                 /\ last.out = 1
        /\ last.err # ErrNone
              => /\ last.State.Components = last.pre.Components
                 /\ last.State.ActiveCraft = last.pre.ActiveCraft
                 /\ last.out = 0

\* a claim at the very finishing time of a job that took a second
C18_Witness ==
    /\ Done
    /\ last.cmd = CmdClaim
    /\ last.pre.ActiveCraft.present
    /\ last.pre.ActiveCraft.FinishesAt > last.pre.ActiveCraft.StartedAt
    /\ last.tr = last.pre.ActiveCraft.FinishesAt
    /\ last.err = ErrNone
    /\ last.out = 1

\* C19: CancelCraft returns NoActiveJob when there is no job; otherwise it
\* succeeds at any clock reading, adds exactly the job's scrapCost to the
\* settled balance, clears the job and grants no item, also when the job had
\* finished.
C19_CancelTransition ==
    (Done /\ last.cmd = CmdCancel) =>
        /\ last.err = (IF last.pre.ActiveCraft.present THEN ErrNone ELSE ErrNoActiveCraft)
        /\ last.State.Components = last.pre.Components
        /\ ~last.State.ActiveCraft.present
        /\ last.State.Scrap = (IF last.pre.ActiveCraft.present
                               THEN (CreditedScrap(last) + last.pre.ActiveCraft.ScrapCost) % UintMod
                               ELSE CreditedScrap(last))

\* a cancel of a job that had already finished
C19_Witness ==
    /\ Done
    /\ last.cmd = CmdCancel
    /\ last.err = ErrNone
    /\ last.pre.ActiveCraft.present
    /\ last.at > last.pre.ActiveCraft.FinishesAt
    /\ last.State.Components = 0
    /\ last.State.Scrap >= last.pre.ActiveCraft.ScrapCost

\* C20: the cursor never decreases and is always a whole number of seconds
\* after the start time, also with a clock whose readings go back; only the
\* settlement step of Execute changes it.
C20_CursorMonotoneWholeSeconds ==
    /\ [](/\ state.LastSettledAt >= StartTime
          /\ (state.LastSettledAt - StartTime) % TicksPerSec = 0)
    /\ [][/\ state'.LastSettledAt >= state.LastSettledAt
          /\ state'.LastSettledAt # state.LastSettledAt
                => \E p \in Procs : pc[p] = "wait" /\ pc'[p] = "apply"]_vars

\* the cursor has advanced and the clock then returns a reading before the
\* start time
C20_Witness ==
    \E p \in Settled :
        /\ ~clockMonotone
        /\ call[p].pre.LastSettledAt >= StartTime + TicksPerSec
        /\ call[p].at < StartTime
        /\ state.LastSettledAt = call[p].pre.LastSettledAt

\* C21: every job that exists satisfies finishesAt > startedAt, whatever the
\* Config the service was constructed with, a craft duration of 0 included.
C21_JobFinishesAfterStart ==
    state.ActiveCraft.present
        => state.ActiveCraft.FinishesAt > state.ActiveCraft.StartedAt

\* the callers whose Execute call performs its transition in this step
Applying(p) == pc[p] = "apply" /\ pc'[p] = "idle"

\* C22: the balance never wraps below zero: it never exceeds what was minted;
\* a successful Unlock or Start finds a balance that covers its cost and takes
\* exactly that; no other step lowers the balance; the item count never drops.
C22_NoNegativeBalance ==
    /\ [](state.Scrap <= totalMinted)
    /\ [][/\ \A p \in Procs :
               Applying(p) =>
                   IF call[p].cmd = CmdUnlock /\ last'.err = ErrNone
                   THEN /\ state.Scrap >= cfg.CraftComponentTechnologyCost
                        /\ state'.Scrap = state.Scrap - cfg.CraftComponentTechnologyCost
                   ELSE IF call[p].cmd \in StartCommands /\ last'.err = ErrNone
                   THEN /\ state.Scrap >= cfg.CraftComponentCost
                        /\ state'.Scrap = state.Scrap - cfg.CraftComponentCost
                   ELSE state'.Scrap >= state.Scrap
          /\ state'.Scrap < state.Scrap => \E p \in Procs : Applying(p)
          /\ state'.Components >= state.Components]_vars

\* a Start that fails for want of funds after an Unlock took the balance to 0
C22_Witness ==
    /\ Done
    /\ last.cmd \in StartCommands
    /\ last.err = ErrInsufficientScrap
    /\ last.pre.CraftingUnlocked
    /\ last.State.Scrap = 0
    /\ totalMinted > 0

\* the State and the log as the callers may observe them: the effects of the
\* call that holds the mutex are not yet visible
AbsState == IF mu = 0 THEN state ELSE call[mu].pre
AbsEvents == IF mu = 0 THEN events ELSE SubSeq(events, 1, call[mu].preLen)

\* the step is a completed GetState or ListEvents call
Reading(kind) == nCalls' # nCalls /\ view'.kind = kind

\* C23: every step of the concurrent service is a step of the sequential one
\* on the observable State and log: the step that completes an Execute call
\* applies the whole call (settlement, transition, events) at once to what the
\* callers could observe before, and returns the resulting snapshot and error;
\* a GetState or ListEvents returns the observable State or log and changes
\* nothing; no other step changes what is observable.
C23_Linearizable ==
    [][IF \E p \in Procs : Applying(p)
       THEN LET f == last'
                s == settleLocked(AbsState, cfg, f.at)
                r == Transition(f.cmd, s.state, cfg, f.tr)
            IN  /\ AbsState' = r.state
                /\ f.State = r.state
                /\ f.err = r.err
                /\ f.minted = s.minted
                /\ AbsEvents' = AbsEvents \o f.eventsList
                /\ mu' = 0
       ELSE /\ AbsState' = AbsState
            /\ AbsEvents' = AbsEvents
            /\ Reading("GetState") => view'.State = AbsState
            /\ Reading("ListEvents")
                  => view'.out = ListEvents(AbsEvents, view'.sinceID, view'.limit)]_vars

\* a successful Start that minted, completed while another caller was blocked
\* in Lock
C23_Witness ==
    /\ Done
    /\ last.cmd \in StartCommands
    /\ last.err = ErrNone
    /\ last.minted > 0
    /\ last.waiters # {}

\* C24: under fair scheduling every started call returns, whatever it returns;
\* the mutex is held exactly while a call is between its settlement and its
\* return, so it is free whenever no call is in progress; and whenever a call
\* is in progress some call can take a step.
C24_TerminatesAndReleases ==
    /\ [](\A p \in Procs : mu = p <=> pc[p] = "apply")
    /\ []((\A p \in Procs : pc[p] = "idle") => mu = 0)
    /\ []((\E p \in Procs : pc[p] # "idle")
            => \E p \in Procs :
                  \/ ENABLED ExecApply(p)
                  \/ ENABLED (\E cmd \in Commands, t \in Times : ExecSettle(p, cmd, t)))
    /\ \A p \in Procs : (pc[p] # "idle") ~> (pc[p] = "idle")

\* a call has returned an error while another caller was blocked in Lock, and
\* the mutex is free
C24_Witness ==
    /\ Done
    /\ last.err # ErrNone
    /\ last.waiters # {}
    /\ mu = 0

\* C25: across every step the log before is a prefix of the log after - no
\* event is removed, reordered or modified - and the log grows only in a step
\* of an Execute call.
C25_AppendOnlyLog ==
    [][/\ Len(events') >= Len(events)
       /\ SubSeq(events', 1, Len(events)) = events
       /\ events' # events
             => \E p \in Procs : pc[p] \in {"wait", "apply"} /\ pc'[p] # pc[p]]_vars

\* the caller of ListEvents wrote to the first event it was given, in a log
\* that Execute calls had appended to more than once
C25_Witness ==
    /\ view.kind = "ListEvents"
    /\ view.mutated
    /\ Len(events) >= 3
    /\ view.out[1].ID < Len(events)
    /\ events[1].CommandID # events[Len(events)].CommandID

\* C26: of the callers that claim one due job concurrently, the one that gets
\* the mutex first succeeds with 1 gained, one item more and the job cleared;
\* a claim that was waiting meanwhile finds no job, returns NoActiveJob with 0
\* gained and leaves the item count as the winner left it.
C26_ClaimExactlyOnce ==
    (Done /\ last.cmd = CmdClaim) =>
        /\ (last.waiters # {} /\ last.pre.ActiveCraft.present
                /\ last.tr >= last.pre.ActiveCraft.FinishesAt)
              => /\ last.err = ErrNone
                 /\ last.out = 1
                 /\ last.State.Components = last.pre.Components + 1
                 /\ ~last.State.ActiveCraft.present
                 /\ last.won = "Claim"
        /\ last.after = "Claim"
              => /\ ~last.pre.ActiveCraft.present
                 /\ last.pre.Components >= 1
                 /\ last.err = ErrNoActiveCraft
                 /\ last.out = 0
                 /\ last.State.Components = last.pre.Components
                 /\ ~last.State.ActiveCraft.present
                 /\ state = last.State

\* the loser of a race of two claims for the first job: one item in the end
C26_Witness ==
    /\ Done
    /\ last.cmd = CmdClaim
    /\ last.after = "Claim"
    /\ last.err = ErrNoActiveCraft
    /\ last.out = 0
    /\ last.State.Components = 1

\* a completed call that was blocked in Lock while a call of the same command
\* ran, and that read the same time as that call did
RacedAtSameReading(cmd) ==
    /\ Done
    /\ last.cmd = cmd
    /\ last.prior.cmd = cmd
    /\ last.at = last.prior.at
    /\ last.prior.at >= last.prior.pre.LastSettledAt

\* C27: when a Settle was blocked in Lock while another Settle ran, and both
\* read the same time, cursor + T, the two together raise the balance by
\* floor(T) * accrualRate and the cursor by floor(T) seconds: the first returns
\* that amount, the second returns 0 and changes nothing.
C27_NoDoubleMint ==
    RacedAtSameReading(CmdSettle) =>
        LET first == last.prior
            k == WholeSecs(first)
        IN  /\ last.State.Scrap = first.pre.Scrap + k * cfg.BaseScrapProduction
            /\ last.State.LastSettledAt = first.pre.LastSettledAt + k * TicksPerSec
            /\ first.out + last.out = k * cfg.BaseScrapProduction
            /\ first.out = k * cfg.BaseScrapProduction
            /\ last.out = 0
            /\ last.State = last.pre
            /\ state = last.State

\* two Settle calls race at a reading a whole second and a fraction after
\* the cursor; the first minted
C27_Witness ==
    /\ RacedAtSameReading(CmdSettle)
    /\ last.prior.minted > 0
    /\ (last.prior.at - last.prior.pre.LastSettledAt) % TicksPerSec # 0
    /\ last.out = 0

\* what the service spent: the unlock cost once the gate is open, the craft
\* cost for each item and for the job in progress
Spent(st) ==
    cfg.CraftComponentTechnologyCost * (IF st.CraftingUnlocked THEN 1 ELSE 0)
        + cfg.CraftComponentCost * (st.Components + (IF st.ActiveCraft.present THEN 1 ELSE 0))

\* C28: in every reachable state the balance is everything minted so far minus
\* the unlock cost if unlocked, minus the craft cost for each item and for the
\* job in progress.
C28_Conservation ==
    state.Scrap = totalMinted - Spent(state)

\* a state after an unlock, a start that was cancelled and a start that was
\* not: minted, spent and refunded
C28_Witness ==
    /\ state.CraftingUnlocked
    /\ state.ActiveCraft.present
    /\ \E i \in 1..Len(events), j \in 1..Len(events) :
          /\ i < j
          /\ events[i].Type = EventTypeComponentCraftStarted
          /\ events[j].Type = EventTypeComponentCraftStarted
    /\ state.Components = 0
    /\ state.Scrap > 0

\* C29 as stated: after SyncState calls raced at one reading, a whole second
\* or more after the cursor, the log holds exactly one event more than before.
C29_OneEventAfterSyncRace ==
    (RacedAtSameReading(CmdSyncState) /\ WholeSecs(last.prior) >= 1)
        => Len(events) = last.prior.preLen + 1

\* C29 as amended: after SyncState calls raced at one reading, a whole second
\* or more after the cursor, the log holds the settlement event of the call
\* that went first, and nothing more, if that settlement minted something, and
\* is as it was before if it minted nothing; the call that waited appended and
\* returned no event; ids are unique and increasing.
C29_OneSettlementAfterSyncRace ==
    (RacedAtSameReading(CmdSyncState) /\ WholeSecs(last.prior) >= 1)
        => LET first == last.prior
           IN  /\ Len(events) = first.preLen + (IF first.minted > 0 THEN 1 ELSE 0)
               /\ first.minted = WholeSecs(first) * cfg.BaseScrapProduction
               /\ first.minted > 0
                     => LET e == events[Len(events)]
                        IN  /\ e.Type = EventTypeScrapSettled
                            /\ e.CommandID = CommandID(CmdSyncState)
                            /\ e.Data.Minted = first.minted
                            /\ e.Data.From = first.pre.LastSettledAt
               /\ last.eventsList = <<>>
               /\ last.preLen = Len(events)
               /\ \A i \in 1..Len(events), j \in 1..Len(events) :
                     i < j => events[i].ID < events[j].ID

\* two SyncState calls race on a fresh service a second or more after the
\* start time: one event in the log
C29_Witness ==
    /\ RacedAtSameReading(CmdSyncState)
    /\ WholeSecs(last.prior) >= 1
    /\ last.prior.preLen = 0
    /\ last.prior.minted > 0
    /\ Len(events) = 1

\* a completed CancelCraft that ran right after a successful start, neither
\* call finding a whole second to settle
CancelledAtOnce ==
    /\ Done
    /\ last.cmd = CmdCancel
    /\ last.prior.cmd \in StartCommands
    /\ WholeSecs(last.prior) = 0
    /\ WholeSecs(last) = 0

\* C30: a successful start followed at once by CancelCraft, with no whole
\* second to settle in either call, leaves balance, item count, unlocked flag,
\* cursor and the empty job slot as they were before the start, and a start
\* from there succeeds again.
C30_StartCancelRoundTrip ==
    CancelledAtOnce =>
        /\ last.err = ErrNone
        /\ last.State = last.prior.pre
        /\ state = last.prior.pre
        /\ ~last.State.ActiveCraft.present
        /\ last.State.CraftingUnlocked
        /\ last.State.Scrap >= cfg.CraftComponentCost
        /\ craftComponentLocked(state, cfg, last.tr).err = ErrNone

\* a start cancelled at once, from a balance that covers just one craft
C30_Witness ==
    /\ CancelledAtOnce
    /\ last.prior.pre.Scrap = cfg.CraftComponentCost
    /\ last.pre.Scrap = 0
    /\ last.State.Scrap = cfg.CraftComponentCost
    /\ last.pre.ActiveCraft.present

\* the step in which a caller's Execute call settles
Settling(p) == pc[p] = "wait" /\ pc'[p] = "apply"

\* C31: once the unlocked flag is set it stays set in every later state,
\* whatever follows; the unlock cost stays spent: the balance of an unlocked
\* service never exceeds what was minted less the unlock cost, and the balance
\* rises only by a settlement's mint or by a cancelled job's own cost.
C31_UnlockIrreversible ==
    /\ [](state.CraftingUnlocked
            => state.Scrap <= totalMinted - cfg.CraftComponentTechnologyCost)
    /\ [][/\ state.CraftingUnlocked => state'.CraftingUnlocked
          /\ state'.Scrap > state.Scrap
                => \/ \E p \in Procs :
                        /\ Settling(p)
                        /\ state'.Scrap = state.Scrap + call'[p].minted
                   \/ \E p \in Procs :
                        /\ Applying(p)
                        /\ call[p].cmd = CmdCancel
                        /\ state.ActiveCraft.present
                        /\ state'.Scrap = state.Scrap + state.ActiveCraft.ScrapCost]_vars

\* an UnlockCrafting that fails on a service that was unlocked, started a
\* job and cancelled or claimed it
C31_Witness ==
    /\ Done
    /\ last.cmd = CmdUnlock
    /\ last.err = ErrAlreadyUnlocked
    /\ ~last.State.ActiveCraft.present
    /\ \E i \in 1..Len(events) : events[i].Type = EventTypeComponentCraftStarted
    /\ last.State.CraftingUnlocked

\* C33: in every reachable state a job implies that the gate is open, and the
\* job's scrapCost is the configured craft cost.
C33_JobImpliesUnlocked ==
    state.ActiveCraft.present
        => /\ state.CraftingUnlocked
           /\ state.ActiveCraft.ScrapCost = cfg.CraftComponentCost

\* a second job, started after the first one was claimed
C33_Witness ==
    /\ state.ActiveCraft.present
    /\ state.Components >= 1
    /\ state.CraftingUnlocked

\* C32: in every reachable state the item count is the number of successful
\* claims so far, and items + successful cancels + (1 if a job is present) is
\* the number of successful starts; the item count changes only in a
\* successful ClaimCraft, which finds a job - started and neither claimed nor
\* cancelled since - takes it and adds one item.
C32_ItemsFromClaimedJobs ==
    /\ [](/\ state.Components = tally.claims
          /\ state.Components + tally.cancels
                + (IF state.ActiveCraft.present THEN 1 ELSE 0) = tally.starts)
    /\ [][state'.Components # state.Components
            => \E p \in Procs :
                  /\ Applying(p)
                  /\ call[p].cmd = CmdClaim
                  /\ last'.err = ErrNone
                  /\ state.ActiveCraft.present
                  /\ ~state'.ActiveCraft.present
                  /\ state'.Components = state.Components + 1
                  /\ tally.starts = tally.claims + tally.cancels + 1]_vars

\* a second claim right after a claim succeeded: no job, no second item
C32_Witness ==
    /\ Done
    /\ last.cmd = CmdClaim
    /\ last.err = ErrNoActiveCraft
    /\ last.after = "none"
    /\ tally.starts = 1
    /\ tally.claims = 1
    /\ state.Components = 1

C35_SettlementEventContent ==
    \A p \in Settled :
        call[p].minted > 0 =>
            /\ Len(call[p].eventsList) = 1
            /\ LET e == call[p].eventsList[1]
               IN  /\ e = events[Len(events)]
                   /\ e.Type = EventTypeScrapSettled
                   /\ e.Data.Minted = call[p].minted
                   /\ e.Data.Minted = (state.Scrap - call[p].pre.Scrap) % UintMod
                   /\ e.Data.From = call[p].pre.LastSettledAt
                   /\ e.Data.To = state.LastSettledAt
                   /\ e.Data.Minted
                         = (((e.Data.To - e.Data.From) \div TicksPerSec)
                               * cfg.BaseScrapProduction) % UintMod
                   /\ e.CommandID = CommandID(call[p].cmd)
                   /\ e.At = now
                   /\ clockMonotone => e.At >= call[p].at

\* the settlement event of a ClaimCraft, a fraction of a second past the new
\* cursor and stamped later than the settlement's reading
C35_Witness ==
    \E p \in Settled :
        /\ call[p].cmd = CmdClaim
        /\ call[p].minted > 0
        /\ call[p].at > state.LastSettledAt
        /\ call[p].eventsList[1].At > call[p].at

\* C37: a GetState or ListEvents call changes neither the State nor the log
\* nor the id counter, takes no clock reading and so settles nothing; a
\* GetState that follows a GetState with no Execute in between returns the
\* same snapshot.
C37_PureReads ==
    [][/\ (Reading("GetState") \/ Reading("ListEvents"))
            => /\ state' = state
               /\ events' = events
               /\ eventSequence' = eventSequence
               /\ now' = now
               /\ totalMinted' = totalMinted
       /\ (Reading("GetState") /\ view.kind = "GetState")
            => view'.State = view.State]_vars

\* a GetState on a service whose clock has been read a whole second or more
\* past the cursor: the snapshot shows the cursor and balance unsettled
C37_Witness ==
    /\ view.kind = "GetState"
    /\ now >= state.LastSettledAt + TicksPerSec
    /\ cfg.BaseScrapProduction > 0
    /\ view.State.LastSettledAt = state.LastSettledAt
    /\ view.State.Scrap = state.Scrap

\* the seconds of accrual that cover both costs at a rate of 1 or more
EnoughSecs == cfg.CraftComponentTechnologyCost + cfg.CraftComponentCost

\* the State after Execute settled st at a reading k whole seconds past the cursor
SettledLater(st, k) == settleLocked(st, cfg, st.LastSettledAt + k * TicksPerSec).state

\* C38: with accrualRate >= 1 no reachable state is a dead end: a settlement
\* at any reading far enough past the cursor leaves a balance that covers the
\* unlock cost and the craft cost; from there UnlockCrafting succeeds unless
\* already unlocked, then StartCraft succeeds if the job slot is idle, and a
\* job, once the clock reads its finishesAt, is claimable.
C38_NoDeadEnds ==
    cfg.BaseScrapProduction >= 1 =>
        \A k \in EnoughSecs..(EnoughSecs + 1) :
            LET t == state.LastSettledAt + k * TicksPerSec
                s == SettledLater(state, k)
                u == unlockComponentCraftingLocked(s, cfg)
                open == IF s.CraftingUnlocked THEN s ELSE u.state
                c == craftComponentLocked(open, cfg, t)
                busy == IF open.ActiveCraft.present THEN open ELSE c.state
            IN  /\ s.Scrap >= cfg.CraftComponentTechnologyCost
                /\ s.Scrap >= cfg.CraftComponentCost
                /\ ~s.CraftingUnlocked => u.err = ErrNone
                /\ open.CraftingUnlocked
                /\ ~open.ActiveCraft.present => c.err = ErrNone
                /\ busy.ActiveCraft.present
                /\ \A later \in 0..1 :
                      claimCraftedComponentLocked(busy,
                          busy.ActiveCraft.FinishesAt + later).err = ErrNone

\* a service that spent all it had: unlocked, one item claimed, one start
\* cancelled or about to be paid for, balance 0, no job
C38_Witness ==
    /\ cfg.BaseScrapProduction >= 1
    /\ mu = 0
    /\ state.CraftingUnlocked
    /\ state.Components >= 1
    /\ ~state.ActiveCraft.present
    /\ state.Scrap < cfg.CraftComponentCost

\* C36: every event the transition of Execute(cmd) appends carries cmd's
\* correlation id, and its payload reflects the transition: CraftingUnlocked
\* has Cost = unlockCost, ComponentCraftStarted has Cost = craftCost and
\* FinishesAt = the created job's finishesAt, ComponentCraftClaimed has
\* Gained = 1.
C36_CommandEventContent ==
    Done =>
        \A i \in 1..Len(last.eventsList) :
            LET e == last.eventsList[i]
            IN  /\ e.CommandID = CommandID(last.cmd)
                /\ e.Type = EventTypeCraftingUnlocked =>
                      e.Data.Cost = cfg.CraftComponentTechnologyCost
                /\ e.Type = EventTypeComponentCraftStarted =>
                      /\ e.Data.Cost = cfg.CraftComponentCost
                      /\ e.Data.FinishesAt = last.State.ActiveCraft.FinishesAt
                /\ e.Type = EventTypeComponentCraftClaimed =>
                      e.Data.Gained = 1

\* C39: no wrap-around on credit: the settlement of a call and a successful
\* cancel never decrease the balance; elapsedSeconds * accrualRate, balance +
\* minted and balance + job.scrapCost all stay below 2^w.
C39_NoWrapOnCredit ==
    [][\A p \in Procs :
         /\ Settling(p) =>
               /\ state'.Scrap >= state.Scrap
               /\ WholeSecs(call'[p]) * cfg.BaseScrapProduction < UintMod
               /\ state.Scrap + call'[p].minted < UintMod
         /\ (Applying(p) /\ call[p].cmd = CmdCancel /\ last'.err = ErrNone) =>
               /\ state'.Scrap >= state.Scrap
               /\ state.Scrap + state.ActiveCraft.ScrapCost < UintMod]_vars

====
